---- MODULE Spec2Model ----
(***************************************************************************)
(* Model of src/main.py: the Markdown -> Google Docs requests converter    *)
(* (apply_basic_markdown_to_docs_requests) and the part of                 *)
(* generate_etp_tr_endpoint from the accelerator lookup to the response:   *)
(* the model call, the Drive and Docs calls around the conversion, and the *)
(* exception handlers.  A string is a sequence of one-character strings.   *)
(* Python positions are 0-based; Slice(s, a, b) is s[a:b].                 *)
(***************************************************************************)
EXTENDS Integers, Sequences, FiniteSets, TLC

VARIABLES
  etp_content_md,            \* main.py:934
  tr_content_md,             \* main.py:935
  markdown_content,          \* argument of the converter (main.py:193)
  lines,                     \* main.py:201
  line_no,                   \* number of lines the for loop has consumed
  current_index,             \* main.py:202
  requests,                  \* main.py:200
  requests_for_docs_api,     \* main.py:952
  batches,                   \* bodies handed to documents().batchUpdate
  pc,                        \* position of the endpoint / converter
  line_marks,                \* history: <<cursor, Len(requests)>> before each line
  conversions,               \* history: <<argument, result>> of each finished call
  calls,                     \* external calls issued so far, with their outcome
  storage_client,            \* main.py:88 (FALSE: None)
  GCS_BUCKET_NAME,           \* main.py:65
  content_found,             \* content_bc, content_ds, content_op (main.py:896-898)
  gcs_accelerator_content,   \* main.py:864
  generated_text,            \* main.py:759
  llm_response,              \* main.py:931
  document_id,               \* main.py:942
  document_link_initial,     \* main.py:943
  document_link_final,       \* main.py:972
  response                   \* what the client of the endpoint receives

(* what the converter never touches *)
endpoint_vars ==
  <<calls, storage_client, GCS_BUCKET_NAME, content_found,
    gcs_accelerator_content, generated_text, llm_response, document_id,
    document_link_initial, document_link_final, response>>

(* the locals of the converter and its history *)
converter_vars ==
  <<markdown_content, lines, line_no, current_index, requests, line_marks,
    conversions>>

vars == <<etp_content_md, tr_content_md, markdown_content, lines, line_no,
          current_index, requests, requests_for_docs_api, batches, pc,
          line_marks, conversions, endpoint_vars>>

---------------------------------------------------------------------------
(* Bounds of the explored inputs *)

MaxLines == 3        \* lines of a multi-line input
MaxTokens == 4       \* tokens of the body of a single-line input
LongSpans == 20      \* bold spans of a line of the long section (2 requests each)
LongLines == 10      \* lines of the long section
MaxCalls == 3        \* calls of the converter in one run of the process

(* Largest batch the document service is to be sent (spec section 6) *)
N == 400

---------------------------------------------------------------------------
(* Python string primitives *)

NL == "\n"

Whitespace == {" ", "\t", "\r", NL}

NEWPAGE == <<"<", "N", "E", "W", "P", "A", "G", "E", ">">>

Slice(s, a, b) == SubSeq(s, a + 1, b)

RECURSIVE LStripCount(_, _)
LStripCount(s, k) ==
  IF k < Len(s) /\ s[k + 1] \in Whitespace THEN LStripCount(s, k + 1) ELSE k

RECURSIVE RStripEnd(_, _)
RStripEnd(s, k) ==
  IF k > 0 /\ s[k] \in Whitespace THEN RStripEnd(s, k - 1) ELSE k

(* lstrip() in place of strip() *)
StripLeftOnly(s) == Slice(s, LStripCount(s, 0), Len(s))

Strip(s) ==
  LET a == LStripCount(s, 0)
  IN  IF a = Len(s) THEN <<>> ELSE Slice(s, a, RStripEnd(s, Len(s)))

StartsWith(s, p) == Len(s) >= Len(p) /\ SubSeq(s, 1, Len(p)) = p

RECURSIVE FindChar(_, _, _)
FindChar(s, c, from) ==
  IF from >= Len(s) THEN -1
  ELSE IF s[from + 1] = c THEN from ELSE FindChar(s, c, from + 1)

RECURSIVE SplitFrom(_, _)
SplitFrom(s, from) ==
  LET k == FindChar(s, NL, from)
  IN  IF k = -1 THEN <<Slice(s, from, Len(s))>>
      ELSE <<Slice(s, from, k)>> \o SplitFrom(s, k + 1)

(* splitlines() in place of split('\n'): no empty piece after a final break *)
SplitNoTrailing(s) ==
  LET r == SplitFrom(s, 0)
  IN  IF Len(r) > 1 /\ r[Len(r)] = << >> THEN SubSeq(r, 1, Len(r) - 1) ELSE r

Split(s) == SplitFrom(s, 0)

IsStarsAt(s, k) == k + 2 <= Len(s) /\ s[k + 1] = "*" /\ s[k + 2] = "*"

RECURSIVE FindStars(_, _)
FindStars(s, from) ==
  IF from + 2 > Len(s) THEN -1
  ELSE IF IsStarsAt(s, from) THEN from ELSE FindStars(s, from + 1)

ContainsStars(s) == FindStars(s, 0) # -1

RECURSIVE FindLastStars(_, _)
FindLastStars(s, from) ==
  IF from + 2 > Len(s) THEN -1
  ELSE LET later == FindLastStars(s, from + 1)
       IN  IF later # -1 THEN later
           ELSE IF IsStarsAt(s, from) THEN from ELSE -1

(* the pattern written greedy: the longest inner text, not the shortest *)
RECURSIVE MatchFromGreedy(_, _)
MatchFromGreedy(s, pos) ==
  IF pos + 4 > Len(s) THEN <<-1, -1>>
  ELSE IF IsStarsAt(s, pos) /\ FindLastStars(s, pos + 2) # -1
       THEN <<pos, FindLastStars(s, pos + 2) + 2>>
       ELSE MatchFromGreedy(s, pos + 1)

(* re.finditer(r'\*\*(.*?)\*\*', s): the leftmost match starting at or     *)
(* after pos, with the shortest inner text.  <<start, end>> or <<-1, -1>>. *)
RECURSIVE MatchFrom(_, _)
MatchFrom(s, pos) ==
  IF pos + 4 > Len(s) THEN <<-1, -1>>
  ELSE IF IsStarsAt(s, pos) /\ FindStars(s, pos + 2) # -1
       THEN <<pos, FindStars(s, pos + 2) + 2>>
       ELSE MatchFrom(s, pos + 1)

---------------------------------------------------------------------------
(* Requests of the Google Docs API, as the converter builds them *)

InsertText(i, t) ==
  [op |-> "insertText", startIndex |-> i, endIndex |-> i, text |-> t,
   style |-> "NONE"]

InsertPageBreak(i) ==
  [op |-> "insertPageBreak", startIndex |-> i, endIndex |-> i, text |-> <<>>,
   style |-> "NONE"]

UpdateParagraphStyle(a, b, st) ==
  [op |-> "updateParagraphStyle", startIndex |-> a, endIndex |-> b,
   text |-> <<>>, style |-> st]

CreateParagraphBullets(a, b) ==
  [op |-> "createParagraphBullets", startIndex |-> a, endIndex |-> b,
   text |-> <<>>, style |-> "BULLET_DISC_CIRCLE_SQUARE"]

UpdateTextStyle(a, b) ==
  [op |-> "updateTextStyle", startIndex |-> a, endIndex |-> b,
   text |-> <<>>, style |-> "bold"]

---------------------------------------------------------------------------
(* The branches of the loop body of apply_basic_markdown_to_docs_requests *)

H2Prefix == <<"#", "#", " ">>
(* the test written without the blank after the hash *)
H1PrefixNoBlank == <<"#">>
H1Prefix == <<"#", " ">>
StarPrefix == <<"*", " ">>
DashPrefix == <<"-", " ">>

IsBulletLine(ls) == StartsWith(ls, StarPrefix) \/ StartsWith(ls, DashPrefix)

(* the style request appended before the text it decorates *)
HeadingRequestsStyleFirst(text, idx, st) ==
  << UpdateParagraphStyle(idx, idx + Len(text), st),
     InsertText(idx, text \o <<NL>>) >>

HeadingRequests(text, idx, st) ==
  << InsertText(idx, text \o <<NL>>),
     UpdateParagraphStyle(idx, idx + Len(text), st) >>

(* the bullet range ending before the line break, as the heading range does *)
BulletRequestsNoBreak(text, idx) ==
  << InsertText(idx, text \o <<NL>>),
     CreateParagraphBullets(idx, idx + Len(text)) >>

(* the line break appended as a request of its own, after the bullet *)
BulletRequestsBreakLast(text, idx) ==
  << InsertText(idx, text),
     CreateParagraphBullets(idx, idx + Len(text) + 1),
     InsertText(idx + Len(text), <<NL>>) >>

BulletRequests(text, idx) ==
  << InsertText(idx, text \o <<NL>>),
     CreateParagraphBullets(idx, idx + Len(text) + 1) >>

(* an opener that never closes taken as bold up to the end of the line *)
RECURSIVE PartsOpenToEnd(_, _)
PartsOpenToEnd(ls, last_pos) ==
  LET m == MatchFrom(ls, last_pos)
      o == FindStars(ls, last_pos)
  IN  IF m[1] = -1
      THEN IF o # -1
           THEN (IF o > last_pos
                 THEN << [text |-> Slice(ls, last_pos, o), bold |-> FALSE] >>
                 ELSE << >>)
                \o << [text |-> Slice(ls, o + 2, Len(ls)), bold |-> TRUE] >>
           ELSE IF last_pos < Len(ls)
           THEN << [text |-> Slice(ls, last_pos, Len(ls)), bold |-> FALSE] >>
           ELSE << >>
      ELSE (IF m[1] > last_pos
            THEN << [text |-> Slice(ls, last_pos, m[1]), bold |-> FALSE] >>
            ELSE << >>)
           \o << [text |-> Slice(ls, m[1] + 2, m[2] - 2), bold |-> TRUE] >>
           \o PartsOpenToEnd(ls, m[2])

(* main.py:252-260 *)
RECURSIVE Parts(_, _)
Parts(ls, last_pos) ==
  LET m == MatchFrom(ls, last_pos)
  IN  IF m[1] = -1
      THEN IF last_pos < Len(ls)
           THEN << [text |-> Slice(ls, last_pos, Len(ls)), bold |-> FALSE] >>
           ELSE << >>
      ELSE (IF m[1] > last_pos
            THEN << [text |-> Slice(ls, last_pos, m[1]), bold |-> FALSE] >>
            ELSE << >>)
           \o << [text |-> Slice(ls, m[1] + 2, m[2] - 2), bold |-> TRUE] >>
           \o Parts(ls, m[2])

(* the bold range measured on the source text, delimiters counted *)
RECURSIVE PartRequestsCountingDelims(_, _)
PartRequestsCountingDelims(parts, idx) ==
  IF parts = << >> THEN << >>
  ELSE LET part == Head(parts)
       IN  << InsertText(idx, part.text) >>
           \o (IF part.bold
               THEN << UpdateTextStyle(idx, idx + Len(part.text) + 4) >>
               ELSE << >>)
           \o PartRequestsCountingDelims(Tail(parts), idx + Len(part.text))

(* the bold range reaching one position past its segment *)
RECURSIVE PartRequestsRangeToNext(_, _)
PartRequestsRangeToNext(parts, idx) ==
  IF parts = << >> THEN << >>
  ELSE LET part == Head(parts)
       IN  << InsertText(idx, part.text) >>
           \o (IF part.bold
               THEN << UpdateTextStyle(idx, idx + Len(part.text) + 1) >>
               ELSE << >>)
           \o PartRequestsRangeToNext(Tail(parts), idx + Len(part.text))

(* main.py:262-272 *)
RECURSIVE PartRequests(_, _)
PartRequests(parts, idx) ==
  IF parts = << >> THEN << >>
  ELSE LET part == Head(parts)
       IN  << InsertText(idx, part.text) >>
           \o (IF part.bold
               THEN << UpdateTextStyle(idx, idx + Len(part.text)) >>
               ELSE << >>)
           \o PartRequests(Tail(parts), idx + Len(part.text))

RECURSIVE PartsLen(_)
PartsLen(parts) ==
  IF parts = << >> THEN 0 ELSE Len(Head(parts).text) + PartsLen(Tail(parts))

(* main.py:262-275 *)
BoldRequests(ls, idx) ==
  LET parts == Parts(ls, 0)
  IN  PartRequests(parts, idx) \o << InsertText(idx + PartsLen(parts), <<NL>>) >>

(* the paragraph inserted the way the bold branch does: text, then break *)
ParagraphRequestsSplitBreak(ls, idx) ==
  << InsertText(idx, ls), InsertText(idx + Len(ls), <<NL>>) >>

ParagraphRequests(ls, idx) == << InsertText(idx, ls \o <<NL>>) >>

---------------------------------------------------------------------------
(* Actions of the converter *)

line == lines[line_no + 1]
(* the prefix tests made on the line as it is, strip() left out *)
line_unstripped == line
line_stripped == Strip(line)

InLoop == pc = "loop" /\ line_no < Len(lines)

Emit(reqs, delta) ==
  /\ requests' = requests \o reqs
  /\ current_index' = current_index + delta
  /\ line_no' = line_no + 1
  /\ line_marks' = Append(line_marks, <<current_index, Len(requests)>>)
  /\ UNCHANGED <<etp_content_md, tr_content_md, markdown_content, lines,
                 requests_for_docs_api, batches, pc, conversions>>
  /\ UNCHANGED endpoint_vars

(* the cursor kept from the call before, as a module-level variable would *)
ConvertStartKeepsCursor ==
  /\ pc = "convert"
  /\ requests' = << >>
  /\ lines' = Split(markdown_content)
  /\ current_index' = current_index
  /\ line_no' = 0
  /\ line_marks' = << >>
  /\ pc' = "loop"
  /\ UNCHANGED <<etp_content_md, tr_content_md, markdown_content,
                 requests_for_docs_api, batches, conversions>>
  /\ UNCHANGED endpoint_vars

ConvertStart ==
  /\ pc = "convert"
  /\ requests' = << >>
  /\ lines' = Split(markdown_content)
  /\ current_index' = 1
  /\ line_no' = 0
  /\ line_marks' = << >>
  /\ pc' = "loop"
  /\ UNCHANGED <<etp_content_md, tr_content_md, markdown_content,
                 requests_for_docs_api, batches, conversions>>
  /\ UNCHANGED endpoint_vars

(* the sentinel branch leaving the cursor where it is *)
LineNewPageNoAdvance ==
  /\ InLoop
  /\ line_stripped = NEWPAGE
  /\ Emit(<< InsertPageBreak(current_index) >>, 0)

(* the sentinel looked for anywhere in the line: in, not == *)
LineNewPageEmbedded ==
  /\ InLoop
  /\ \E i \in 1..(Len(line_stripped) - Len(NEWPAGE) + 1) :
       SubSeq(line_stripped, i, i + Len(NEWPAGE) - 1) = NEWPAGE
  /\ Emit(<< InsertPageBreak(current_index) >>, 1)

LineNewPage ==
  /\ InLoop
  /\ line_stripped = NEWPAGE
  /\ Emit(<< InsertPageBreak(current_index) >>, 1)

(* a blank line skipped without a request *)
LineBlankSilent ==
  /\ InLoop
  /\ line_stripped # NEWPAGE
  /\ line_stripped = << >>
  /\ Emit(<< >>, 0)

LineBlank ==
  /\ InLoop
  /\ line_stripped # NEWPAGE
  /\ line_stripped = << >>
  /\ Emit(<< InsertText(current_index, <<NL>>) >>, 1)

Structured == InLoop /\ line_stripped # NEWPAGE /\ line_stripped # << >>

(* the cursor advanced by the length of the line, prefix included *)
LineHeading2CountsPrefix ==
  /\ Structured
  /\ StartsWith(line_stripped, H2Prefix)
  /\ LET text == Slice(line_stripped, 3, Len(line_stripped))
     IN  Emit(HeadingRequests(text, current_index, "HEADING_2"),
              Len(line_stripped) + 1)

LineHeading2 ==
  /\ Structured
  /\ StartsWith(line_stripped, H2Prefix)
  /\ LET text == Slice(line_stripped, 3, Len(line_stripped))
     IN  Emit(HeadingRequests(text, current_index, "HEADING_2"), Len(text) + 1)

LineHeading1 ==
  /\ Structured
  /\ ~ StartsWith(line_stripped, H2Prefix)
  /\ StartsWith(line_stripped, H1Prefix)
  /\ LET text == Slice(line_stripped, 2, Len(line_stripped))
     IN  Emit(HeadingRequests(text, current_index, "HEADING_1"), Len(text) + 1)

(* the bullet branch forgetting the newline it inserted *)
LineBulletNoNewline ==
  /\ Structured
  /\ ~ StartsWith(line_stripped, H2Prefix)
  /\ ~ StartsWith(line_stripped, H1Prefix)
  /\ IsBulletLine(line_stripped)
  /\ LET text == Slice(line_stripped, 2, Len(line_stripped))
     IN  Emit(BulletRequests(text, current_index), Len(text))

LineBullet ==
  /\ Structured
  /\ ~ StartsWith(line_stripped, H2Prefix)
  /\ ~ StartsWith(line_stripped, H1Prefix)
  /\ IsBulletLine(line_stripped)
  /\ LET text == Slice(line_stripped, 2, Len(line_stripped))
     IN  Emit(BulletRequests(text, current_index), Len(text) + 1)

Unprefixed ==
  /\ Structured
  /\ ~ StartsWith(line_stripped, H2Prefix)
  /\ ~ StartsWith(line_stripped, H1Prefix)
  /\ ~ IsBulletLine(line_stripped)

LineBold ==
  /\ Unprefixed
  /\ ContainsStars(line_stripped)
  /\ Emit(BoldRequests(line_stripped, current_index),
          PartsLen(Parts(line_stripped, 0)) + 1)

LineParagraph ==
  /\ Unprefixed
  /\ ~ ContainsStars(line_stripped)
  /\ Emit(ParagraphRequests(line_stripped, current_index),
          Len(line_stripped) + 1)

ConvertReturn ==
  /\ pc = "loop"
  /\ line_no = Len(lines)
  /\ requests_for_docs_api' = requests
  /\ conversions' = Append(conversions, <<markdown_content, requests>>)
  /\ pc' = "returned"
  /\ UNCHANGED <<etp_content_md, tr_content_md, markdown_content, lines,
                 line_no, current_index, requests, batches, line_marks>>
  /\ UNCHANGED endpoint_vars

Convert ==
  \/ ConvertStart
  \/ LineNewPage
  \/ LineBlank
  \/ LineHeading2
  \/ LineHeading1
  \/ LineBullet
  \/ LineBold
  \/ LineParagraph
  \/ ConvertReturn

---------------------------------------------------------------------------
(* Actions of generate_etp_tr_endpoint around the conversion *)

(* An external call: what it was given, how it ended, what it returned *)
Call(name, arg, result, value) ==
  [name |-> name, arg |-> arg, result |-> result, value |-> value]

(* What the client receives: nothing yet, an error status, or the 200 body *)
NoResponse ==
  [status_code |-> 0, success |-> FALSE, doc_link |-> << >>, document_id |-> ""]
HTTPException(status_code) ==
  [status_code |-> status_code, success |-> FALSE, doc_link |-> << >>,
   document_id |-> ""]
JSONResponse(link, id) ==
  [status_code |-> 200, success |-> TRUE, doc_link |-> link, document_id |-> id]

(* statuses an HttpError of the Google API carries *)
HttpStatuses == {403}

(* how a call of the Google API ends *)
ApiOutcomes == {"returned", "HttpError", "Exception"}

(* the except clauses of main.py:989-1002, and an exception no clause of   *)
(* the endpoint catches: the request ends with an error status             *)
Raise(status_code) ==
  /\ response' = HTTPException(status_code)
  /\ pc' = "failed"

StatusOf(outcome, status) == IF outcome = "HttpError" THEN status ELSE 500

(* the sentinel line with no blank line on either side *)
SeparatorSingle == <<NL>> \o NEWPAGE \o <<NL>>

Separator == <<NL, NL>> \o NEWPAGE \o <<NL, NL>>

Compose ==
  /\ pc = "compose"
  /\ markdown_content' = etp_content_md \o Separator \o tr_content_md
  /\ pc' = "convert"
  /\ UNCHANGED <<etp_content_md, tr_content_md, lines, line_no, current_index,
                 requests, requests_for_docs_api, batches, line_marks,
                 conversions>>
  /\ UNCHANGED endpoint_vars

(* the list submitted line by line, from inside the loop *)
BatchUpdateInsideLoop ==
  /\ pc = "loop"
  /\ Len(batches) < line_no
  /\ calls' = Append(calls, Call("documents.batchUpdate", <<document_id>>,
                                 "returned", << >>))
  /\ batches' = Append(batches, requests)
  /\ UNCHANGED <<etp_content_md, tr_content_md, requests_for_docs_api, pc,
                 response>>
  /\ UNCHANGED converter_vars
  /\ UNCHANGED <<storage_client, GCS_BUCKET_NAME, content_found,
                 gcs_accelerator_content, generated_text, llm_response,
                 document_id, document_link_initial, document_link_final>>

BatchUpdate ==
  /\ pc = "returned"
  /\ IF requests_for_docs_api # << >>
     THEN \E outcome \in ApiOutcomes, status \in HttpStatuses :
            /\ calls' = Append(calls, Call("documents.batchUpdate",
                                           <<document_id>>, outcome, << >>))
            /\ batches' = Append(batches, requests_for_docs_api)
            /\ IF outcome = "returned"
               THEN pc' = "updated" /\ UNCHANGED response
               ELSE Raise(StatusOf(outcome, status))
     ELSE pc' = "updated" /\ UNCHANGED <<calls, batches, response>>
  /\ UNCHANGED <<etp_content_md, tr_content_md, requests_for_docs_api>>
  /\ UNCHANGED converter_vars
  /\ UNCHANGED <<storage_client, GCS_BUCKET_NAME, content_found,
                 gcs_accelerator_content, generated_text, llm_response,
                 document_id, document_link_initial, document_link_final>>

(* the HttpError of permissions().create left to the outer handler *)
CreatePermissionFatal ==
  /\ pc = "updated"
  /\ \E outcome \in ApiOutcomes, status \in HttpStatuses :
       /\ calls' = Append(calls, Call("permissions.create", <<document_id>>,
                                      outcome, << >>))
       /\ IF outcome = "returned"
          THEN pc' = "permitted" /\ UNCHANGED response
          ELSE Raise(StatusOf(outcome, status))
  /\ UNCHANGED <<etp_content_md, tr_content_md, requests_for_docs_api, batches>>
  /\ UNCHANGED converter_vars
  /\ UNCHANGED <<storage_client, GCS_BUCKET_NAME, content_found,
                 gcs_accelerator_content, generated_text, llm_response,
                 document_id, document_link_initial, document_link_final>>

(* main.py:962-969 *)
CreatePermission ==
  /\ pc = "updated"
  /\ \E outcome \in ApiOutcomes :
       /\ calls' = Append(calls, Call("permissions.create", <<document_id>>,
                                      outcome, << >>))
       /\ IF outcome = "Exception"
          THEN Raise(500)
          ELSE pc' = "permitted" /\ UNCHANGED response
  /\ UNCHANGED <<etp_content_md, tr_content_md, requests_for_docs_api, batches>>
  /\ UNCHANGED converter_vars
  /\ UNCHANGED <<storage_client, GCS_BUCKET_NAME, content_found,
                 gcs_accelerator_content, generated_text, llm_response,
                 document_id, document_link_initial, document_link_final>>

(* f"https://docs.google.com/document/d/{document_id}/edit" *)
DocumentUrl(id) == <<"https://docs.google.com/document/d/", id, "/edit">>

(* the webViewLink of the metadata files().create and files().get return *)
InitialLinks == { << >>, <<"initial webViewLink">> }
FinalLinks == { << >>, <<"final webViewLink">> }

(* main.py:971-976 *)
GetFinalLink ==
  /\ pc = "permitted"
  /\ \E outcome \in ApiOutcomes, status \in HttpStatuses,
        webViewLink \in FinalLinks :
       /\ calls' = Append(calls, Call("files.get", <<document_id>>, outcome,
                                      IF outcome = "returned" THEN webViewLink
                                      ELSE << >>))
       /\ IF outcome = "returned"
          THEN /\ document_link_final' =
                    IF webViewLink # << >> THEN webViewLink
                    ELSE IF document_link_initial # << >>
                         THEN document_link_initial
                         ELSE DocumentUrl(document_id)
               /\ pc' = "linked"
               /\ UNCHANGED response
          ELSE /\ Raise(StatusOf(outcome, status))
               /\ UNCHANGED document_link_final
  /\ UNCHANGED <<etp_content_md, tr_content_md, requests_for_docs_api, batches>>
  /\ UNCHANGED converter_vars
  /\ UNCHANGED <<storage_client, GCS_BUCKET_NAME, content_found,
                 gcs_accelerator_content, generated_text, llm_response,
                 document_id, document_link_initial>>

(* main.py:979-987 *)
Respond ==
  /\ pc = "linked"
  /\ response' = JSONResponse(document_link_final, document_id)
  /\ pc' = "done"
  /\ UNCHANGED <<etp_content_md, tr_content_md, requests_for_docs_api, batches>>
  /\ UNCHANGED converter_vars
  /\ UNCHANGED <<calls, storage_client, GCS_BUCKET_NAME, content_found,
                 gcs_accelerator_content, generated_text, llm_response,
                 document_id, document_link_initial, document_link_final>>

---------------------------------------------------------------------------
(* Inputs *)

RECURSIVE Join(_)
Join(ls) ==
  IF Len(ls) = 0 THEN << >>
  ELSE IF Len(ls) = 1 THEN ls[1]
  ELSE ls[1] \o <<NL>> \o Join(Tail(ls))

Tokens == { <<"a">>, <<"*", "*">>, <<" ">>, <<"*">> }

RECURSIVE TokenStrings(_)
TokenStrings(n) ==
  IF n = 0 THEN { << >> }
  ELSE LET P == TokenStrings(n - 1)
       IN  P \cup { p \o t : p \in P, t \in Tokens }

LinePrefixes ==
  { << >>, <<"#", " ">>, <<"#", "#", " ">>, <<"#", "#", "#", " ">>,
    <<"-", " ">>, <<"*", " ">>, <<" ">>, <<"#">>, <<"-">> }

RichLines == { p \o b : p \in LinePrefixes, b \in TokenStrings(MaxTokens) }

Title == <<"T", "i", "t", "l", "e">>
ItemOne == <<"i", "t", "e", "m", " ", "o", "n", "e">>
PlainBoldText ==
  <<"P", "l", "a", "i", "n", " ", "*", "*", "b", "o", "l", "d", "*", "*", " ",
    "t", "e", "x", "t">>

ExampleLines ==
  { H1Prefix \o Title, DashPrefix \o ItemOne, PlainBoldText,
    <<"*", "*", "a", "*", "*", "*", "*", "b", "*", "*">>,
    <<"<", "n", "e", "w", "p", "a", "g", "e", ">">>,
    <<"x">> \o NEWPAGE,
    <<"\t">> \o NEWPAGE \o <<" ">>,
    <<" ", "#", "#", " ">>, <<"\t", "*", "\t">> }

SmallLines ==
  { << >>, <<"a">>, <<" ", "a", " ">>, <<"#", " ", "a">>,
    <<"#", "#", " ", "a">>, <<"#", "#", "#", " ", "a">>, <<"-", " ", "a">>,
    <<"*", "*", "a", "*", "*">>, <<"#", " ", "*", "*", "a", "*", "*">>,
    <<"a", "*", "*">>, <<"#">>, NEWPAGE }

RECURSIVE LineSeqs(_)
LineSeqs(n) ==
  IF n = 0 THEN { << >> }
  ELSE LET P == LineSeqs(n - 1)
       IN  P \cup { Append(p, l) : p \in P, l \in SmallLines }

Documents == { Join(ls) : ls \in LineSeqs(MaxLines) }

TwoBolds ==
  <<"x", " ", "*", "*", "a", "*", "*", " ", "*", "*", "b", "c", "*", "*", "!">>
OddDelimiters ==
  <<"a", "*", "*", NL, "*", "*", "a", "*", "*", "*", "*", "b">>
ThreeSentinels ==
  NEWPAGE \o <<NL, "x">> \o NEWPAGE \o <<NL, "\t">> \o NEWPAGE \o <<" ">>
LoneMarker ==
  <<"#", " ", "a", NL, "-", " ", "a", NL, " ", "-", " ">>
ExampleDocuments == { TwoBolds, OddDelimiters, ThreeSentinels, LoneMarker }

Inputs == Documents \cup RichLines \cup ExampleLines \cup ExampleDocuments
          \cup { l \o <<NL>> : l \in ExampleLines }

BoldSpan == <<"*", "*", "a", "*", "*">>

LongLine == [i \in 1..(5 * LongSpans) |-> BoldSpan[((i - 1) % 5) + 1]]

LongSection == Join([k \in 1..LongLines |-> LongLine])

Sections == { Join(ls) : ls \in LineSeqs(2) }
ShortSections == { Join(ls) : ls \in LineSeqs(1) }

---------------------------------------------------------------------------
(* The accelerator lookup of one product (main.py:888-907) *)

Kinds == <<"BC", "DS", "OP">>

(* bc_path .. op_path and their _alt forms, for the product "p" *)
PrimaryPath(kind) == <<"aceleradores_conteudo/p/", kind, "_", "p", ".txt">>
AlternatePath(kind) == <<"aceleradores_conteudo/p/", kind, " - ", "p", ".txt">>

(* what a read of a blob can meet *)
BlobOutcomes == {"missing", "error", "empty", "text"}

(* a value of type Optional[str] *)
None == [none |-> TRUE, text |-> << >>]
Str(t) == [none |-> FALSE, text |-> t]
Truthy(v) == ~ v.none /\ v.text # << >>

(* the text stored under a path *)
TextAt(file_path) == <<"text of ">> \o file_path

Configured == storage_client /\ GCS_BUCKET_NAME # ""

(* get_gcs_file_content: its return value and the calls it makes *)
get_gcs_file_content(file_path, outcome) ==
  IF ~ storage_client THEN None
  ELSE IF GCS_BUCKET_NAME = "" THEN None
  ELSE IF outcome = "text" THEN Str(TextAt(file_path))
  ELSE IF outcome = "empty" THEN Str(<< >>)
  ELSE None

StorageCalls(file_path, outcome) ==
  IF Configured
  THEN << Call("storage.blob", file_path, outcome,
               get_gcs_file_content(file_path, outcome).text) >>
  ELSE << >>

kind == Kinds[Len(content_found) + 1]

AfterKind == IF Len(content_found) + 1 = Len(Kinds) THEN "store" ELSE "primary"

LookupFrame ==
  /\ UNCHANGED <<etp_content_md, tr_content_md, requests_for_docs_api, batches>>
  /\ UNCHANGED converter_vars
  /\ UNCHANGED <<storage_client, GCS_BUCKET_NAME, generated_text, llm_response,
                 document_id, document_link_initial, document_link_final,
                 response>>

(* both paths read whatever the first gives, the second one kept *)
ReadPrimaryThenAlternate ==
  /\ pc = "primary"
  /\ \E outcome \in BlobOutcomes :
       calls' = calls \o StorageCalls(PrimaryPath(kind), outcome)
  /\ pc' = "alternate"
  /\ UNCHANGED <<content_found, gcs_accelerator_content>>
  /\ LookupFrame

(* the left operand of: get_gcs_file_content(x_path) or ... *)
ReadPrimary ==
  /\ pc = "primary"
  /\ \E outcome \in BlobOutcomes :
       LET content == get_gcs_file_content(PrimaryPath(kind), outcome)
       IN  /\ calls' = calls \o StorageCalls(PrimaryPath(kind), outcome)
           /\ IF Truthy(content)
              THEN /\ content_found' = Append(content_found, content)
                   /\ pc' = AfterKind
              ELSE /\ pc' = "alternate"
                   /\ UNCHANGED content_found
  /\ UNCHANGED gcs_accelerator_content
  /\ LookupFrame

(* the right operand, evaluated when the left one is falsy *)
ReadAlternate ==
  /\ pc = "alternate"
  /\ \E outcome \in BlobOutcomes :
       /\ calls' = calls \o StorageCalls(AlternatePath(kind), outcome)
       /\ content_found' =
            Append(content_found,
                   get_gcs_file_content(AlternatePath(kind), outcome))
  /\ pc' = AfterKind
  /\ UNCHANGED gcs_accelerator_content
  /\ LookupFrame

(* main.py:904-906 *)
StoreContents ==
  /\ pc = "store"
  /\ gcs_accelerator_content' =
       [k \in { i \in 1..Len(Kinds) : Truthy(content_found[i]) }
          |-> content_found[k].text]
  /\ pc' = "looked_up"
  /\ UNCHANGED <<calls, content_found>>
  /\ LookupFrame

Lookup == ReadPrimary \/ ReadAlternate \/ StoreContents

---------------------------------------------------------------------------
(* generate_etp_tr_content_with_gemini and the calls before the conversion *)

(* the defaults of main.py:934-935 *)
DefaultEtp ==
  <<"#", " ", "E", "T", "P", NL, NL, "E", "r", "r", "o", ":", " ", "C",
    "o", "n", "t", "e", "ú", "d", "o", " ", "d", "o", " ", "E", "T", "P",
    " ", "n", "ã", "o", " ", "f", "o", "i", " ", "g", "e", "r", "a", "d",
    "o", " ", "c", "o", "r", "r", "e", "t", "a", "m", "e", "n", "t", "e",
    " ", "p", "e", "l", "o", " ", "L", "L", "M", ".">>

DefaultTr ==
  <<"#", " ", "T", "e", "r", "m", "o", " ", "d", "e", " ", "R", "e", "f",
    "e", "r", "ê", "n", "c", "i", "a", NL, NL, "E", "r", "r", "o", ":",
    " ", "C", "o", "n", "t", "e", "ú", "d", "o", " ", "d", "o", " ", "T",
    "R", " ", "n", "ã", "o", " ", "f", "o", "i", " ", "g", "e", "r", "a",
    "d", "o", " ", "c", "o", "r", "r", "e", "t", "a", "m", "e", "n", "t",
    "e", " ", "p", "e", "l", "o", " ", "L", "L", "M", ".">>

(* a value json.loads can return: an object with or without the two keys, *)
(* or a value that is no object                                            *)
Dict(has_etp, etp, has_tr, tr) ==
  [type |-> "dict", has_etp |-> has_etp, etp_content |-> etp,
   has_tr |-> has_tr, tr_content |-> tr]
NotADict == [type |-> "list", has_etp |-> FALSE, etp_content |-> << >>,
             has_tr |-> FALSE, tr_content |-> << >>]
NoDocument == [type |-> "none", has_etp |-> FALSE, etp_content |-> << >>,
               has_tr |-> FALSE, tr_content |-> << >>]

JsonDocuments ==
  { Dict(TRUE, e, TRUE, t) : e \in Sections, t \in ShortSections }
  \cup { Dict(TRUE, LongSection, TRUE, << >>),
         Dict(FALSE, << >>, TRUE, <<"a">>),
         Dict(TRUE, <<"a">>, FALSE, << >>),
         Dict(FALSE, << >>, FALSE, << >>),
         NotADict }

SimpleDocument == Dict(TRUE, <<"#", " ", "a">>, TRUE, <<"a">>)

(* In a reply text the character "J" stands for the text of the JSON       *)
(* document of the reply and "K" for the text {}; every other character    *)
(* is itself, but for the backquote, which a TLA+ string cannot hold and   *)
(* which is written ' here.                                                *)
JsonText == <<"J">>
EmptyObjectText == <<"K">>
EmptyObject == Dict(FALSE, << >>, FALSE, << >>)
FenceOpen == <<"'", "'", "'", "j", "s", "o", "n">>
FenceClose == <<"'", "'", "'">>

ReplyTexts ==
  { JsonText,
    <<" ">> \o JsonText \o <<NL>>,
    FenceOpen \o <<NL>> \o JsonText \o <<NL>> \o FenceClose,
    <<"x", " ">> \o FenceOpen \o JsonText \o <<" ">> \o FenceClose \o <<"x">>,
    FenceOpen \o <<" ">> \o JsonText \o FenceClose \o FenceOpen \o <<"x">>
      \o FenceClose,
    FenceOpen \o <<NL>> \o JsonText,
    EmptyObjectText,
    FenceOpen \o JsonText \o FenceClose \o FenceOpen \o EmptyObjectText
      \o FenceClose,
    JsonText \o FenceOpen \o <<" ">> \o EmptyObjectText \o <<NL>> \o FenceClose,
    FenceOpen \o <<"x">> \o FenceClose,
    FenceOpen \o FenceClose \o JsonText,
    <<"x", " ">> \o JsonText,
    JsonText \o JsonText,
    << >> }

(* what the model returns: a text, and the document its JSON part encodes *)
Replies ==
  { [text |-> t, document |-> SimpleDocument] : t \in ReplyTexts }
  \cup { [text |-> JsonText, document |-> d] : d \in JsonDocuments }

(* how generate_content_async ends: it raises, or its response has no      *)
(* candidate parts, or a part without text, or a text                      *)
ModelOutcomes == {"raises", "no_parts", "no_text", "text"}

RECURSIVE FindSeq(_, _, _)
FindSeq(s, p, from) ==
  IF from + Len(p) > Len(s) THEN -1
  ELSE IF SubSeq(s, from + 1, from + Len(p)) = p THEN from
  ELSE FindSeq(s, p, from + 1)

RStrip(s) == Slice(s, 0, RStripEnd(s, Len(s)))

(* re.search of main.py:763: the first opening fence that a closing fence  *)
(* follows, and group 1, the text between them without the blanks at its   *)
(* ends                                                                    *)
match_json(text) ==
  LET open == FindSeq(text, FenceOpen, 0)
      start == IF open = -1 THEN -1
               ELSE LStripCount(text, open + Len(FenceOpen))
      close == IF open = -1 THEN -1 ELSE FindSeq(text, FenceClose, start)
  IN  IF close = -1 THEN [found |-> FALSE, group |-> << >>]
      ELSE [found |-> TRUE, group |-> RStrip(Slice(text, start, close))]

(* the fence never looked for: the whole text handed to json.loads *)
json_str_whole(text) == text

(* main.py:764-768 *)
json_str(text) ==
  IF match_json(text).found THEN match_json(text).group ELSE text

(* json.loads: blanks around the document are allowed, nothing else is *)
json_loads(str, document) ==
  IF Strip(str) = JsonText THEN [ok |-> TRUE, value |-> document]
  ELSE IF Strip(str) = EmptyObjectText THEN [ok |-> TRUE, value |-> EmptyObject]
  ELSE [ok |-> FALSE, value |-> NoDocument]

(* main.py:762-776: the value returned, or an exception *)
parsed_content(text, document) ==
  IF text = << >> THEN [ok |-> FALSE, value |-> NoDocument]
  ELSE json_loads(json_str(text), document)

EndpointFrame ==
  /\ UNCHANGED <<requests_for_docs_api, batches>>
  /\ UNCHANGED converter_vars
  /\ UNCHANGED <<storage_client, GCS_BUCKET_NAME, content_found,
                 gcs_accelerator_content, document_link_final>>

(* generate_etp_tr_content_with_gemini, called at main.py:931 *)
GenerateContent ==
  /\ pc = "llm"
  /\ \E gemini_model \in BOOLEAN, outcome \in ModelOutcomes, reply \in Replies :
       IF ~ gemini_model
       THEN /\ Raise(500)
            /\ UNCHANGED <<calls, generated_text, llm_response>>
       ELSE /\ calls' = Append(calls, Call("generate_content_async", << >>,
                                           outcome,
                                           IF outcome = "text" THEN reply.text
                                           ELSE << >>))
            /\ IF outcome # "text"
               THEN /\ Raise(500)
                    /\ UNCHANGED <<generated_text, llm_response>>
               ELSE LET parsed == parsed_content(reply.text, reply.document)
                    IN  /\ generated_text' = reply.text
                        /\ IF parsed.ok
                           THEN /\ llm_response' = parsed.value
                                /\ pc' = "unpack"
                                /\ UNCHANGED response
                           ELSE /\ Raise(500)
                                /\ UNCHANGED llm_response
  /\ UNCHANGED <<etp_content_md, tr_content_md, document_id,
                 document_link_initial>>
  /\ EndpointFrame

(* main.py:933-935 *)
Unpack ==
  /\ pc = "unpack"
  /\ IF llm_response.type = "dict"
     THEN /\ etp_content_md' = IF llm_response.has_etp
                               THEN llm_response.etp_content ELSE DefaultEtp
          /\ tr_content_md' = IF llm_response.has_tr
                              THEN llm_response.tr_content ELSE DefaultTr
          /\ pc' = "authenticate"
          /\ UNCHANGED response
     ELSE /\ Raise(500)
          /\ UNCHANGED <<etp_content_md, tr_content_md>>
  /\ UNCHANGED <<calls, generated_text, llm_response, document_id,
                 document_link_initial>>
  /\ EndpointFrame

(* authenticate_google_docs_and_drive, called at main.py:937 *)
Authenticate ==
  /\ pc = "authenticate"
  /\ \E outcome \in {"returned", "Exception"} :
       /\ calls' = Append(calls, Call("build", << >>, outcome, << >>))
       /\ IF outcome = "returned"
          THEN pc' = "create" /\ UNCHANGED response
          ELSE Raise(500)
  /\ UNCHANGED <<etp_content_md, tr_content_md, generated_text, llm_response,
                 document_id, document_link_initial>>
  /\ EndpointFrame

DocumentIds == {"", "doc"}

(* the document id taken as it comes, the test of main.py:945 left out *)
CreateDocumentAnyId ==
  /\ pc = "create"
  /\ \E outcome \in ApiOutcomes, status \in HttpStatuses, id \in DocumentIds,
        webViewLink \in InitialLinks :
       /\ calls' = Append(calls, Call("files.create", << >>, outcome,
                                      IF outcome = "returned"
                                      THEN <<id>> \o webViewLink ELSE << >>))
       /\ IF outcome = "returned"
          THEN /\ document_id' = id
               /\ document_link_initial' = webViewLink
               /\ pc' = "compose"
               /\ UNCHANGED response
          ELSE /\ Raise(StatusOf(outcome, status))
               /\ UNCHANGED <<document_id, document_link_initial>>
  /\ UNCHANGED <<etp_content_md, tr_content_md, generated_text, llm_response>>
  /\ EndpointFrame

(* main.py:940-948 *)
CreateDocument ==
  /\ pc = "create"
  /\ \E outcome \in ApiOutcomes, status \in HttpStatuses, id \in DocumentIds,
        webViewLink \in InitialLinks :
       /\ calls' = Append(calls, Call("files.create", << >>, outcome,
                                      IF outcome = "returned"
                                      THEN <<id>> \o webViewLink ELSE << >>))
       /\ IF outcome = "returned"
          THEN /\ document_id' = id
               /\ document_link_initial' = webViewLink
               /\ IF id = ""
                  THEN Raise(500)
                  ELSE pc' = "compose" /\ UNCHANGED response
          ELSE /\ Raise(StatusOf(outcome, status))
               /\ UNCHANGED <<document_id, document_link_initial>>
  /\ UNCHANGED <<etp_content_md, tr_content_md, generated_text, llm_response>>
  /\ EndpointFrame

---------------------------------------------------------------------------
(* Specifications *)

InitLocals ==
  /\ lines = << >>
  /\ line_no = 0
  /\ current_index = 1
  /\ requests = << >>
  /\ requests_for_docs_api = << >>
  /\ batches = << >>
  /\ line_marks = << >>
  /\ conversions = << >>

(* the endpoint before its first external call *)
InitEndpoint ==
  /\ calls = << >>
  /\ content_found = << >>
  /\ gcs_accelerator_content = << >>
  /\ generated_text = << >>
  /\ llm_response = NoDocument
  /\ document_id = ""
  /\ document_link_initial = << >>
  /\ document_link_final = << >>
  /\ response = NoResponse

Environment ==
  /\ storage_client = TRUE
  /\ GCS_BUCKET_NAME = "docsorgaospublicos"

(* A call of the converter on any string *)
InitConv ==
  /\ markdown_content \in Inputs
  /\ etp_content_md = << >>
  /\ tr_content_md = << >>
  /\ pc = "convert"
  /\ InitLocals
  /\ InitEndpoint
  /\ Environment

NextConv == Convert

SpecConv == InitConv /\ [][NextConv]_vars

(* The endpoint from the call of the model on *)
Init ==
  /\ etp_content_md = << >>
  /\ tr_content_md = << >>
  /\ markdown_content = << >>
  /\ pc = "llm"
  /\ InitLocals
  /\ InitEndpoint
  /\ Environment

Next ==
  \/ GenerateContent
  \/ Unpack
  \/ Authenticate
  \/ CreateDocument
  \/ Compose
  \/ Convert
  \/ BatchUpdate
  \/ CreatePermission
  \/ GetFinalLink
  \/ Respond

Spec == Init /\ [][Next]_vars

(* The converter called again and again by the requests the process serves *)
CallInputs ==
  { << >>, <<"a">>, <<"#", " ", "a", NL, "#", "#", " ", "a">>,
    NEWPAGE \o <<NL, "a">>, <<"*", "*", "a", "*", "*">>,
    <<"-", " ", "a", NL>> }

CallAgain ==
  /\ pc = "returned"
  /\ Len(conversions) < MaxCalls
  /\ markdown_content' \in CallInputs
  /\ pc' = "convert"
  /\ UNCHANGED <<etp_content_md, tr_content_md, lines, line_no, current_index,
                 requests, requests_for_docs_api, batches, line_marks,
                 conversions>>
  /\ UNCHANGED endpoint_vars

InitCalls ==
  /\ markdown_content \in CallInputs
  /\ etp_content_md = << >>
  /\ tr_content_md = << >>
  /\ pc = "convert"
  /\ InitLocals
  /\ InitEndpoint
  /\ Environment

NextCalls == Convert \/ CallAgain

SpecCalls == InitCalls /\ [][NextCalls]_vars

(* The accelerator lookup of one product, under any configuration *)
InitLookup ==
  /\ etp_content_md = << >>
  /\ tr_content_md = << >>
  /\ markdown_content = << >>
  /\ pc = "primary"
  /\ InitLocals
  /\ InitEndpoint
  /\ storage_client \in BOOLEAN
  /\ GCS_BUCKET_NAME \in {"", "docsorgaospublicos"}

NextLookup == Lookup

SpecLookup == InitLookup /\ [][NextLookup]_vars

TypeOK ==
  /\ pc \in {"primary", "alternate", "store", "looked_up", "llm", "unpack",
            "authenticate", "create", "compose", "convert", "loop",
            "returned", "updated", "permitted", "linked", "done", "failed"}
  /\ line_no \in 0..Len(lines)
  /\ current_index >= 1
  /\ Len(line_marks) = line_no

---------------------------------------------------------------------------
(* Vocabulary of the properties *)

(* The requests the k-th line emitted, and the cursor around it *)
MarkAfter(k) == IF k < line_no THEN line_marks[k + 1][2] ELSE Len(requests)
LineOps(k) == SubSeq(requests, line_marks[k][2] + 1, MarkAfter(k))
CursorBefore(k) == line_marks[k][1]
CursorAfter(k) == IF k < line_no THEN line_marks[k + 1][1] ELSE current_index

IsInsert(r) == r.op = "insertText"
IsBreak(r) == r.op = "insertPageBreak"
IsRange(r) ==
  r.op \in {"updateParagraphStyle", "createParagraphBullets", "updateTextStyle"}

RECURSIVE ConcatTexts(_)
ConcatTexts(rs) ==
  IF rs = << >> THEN << >>
  ELSE (IF IsInsert(Head(rs)) THEN Head(rs).text ELSE << >>)
       \o ConcatTexts(Tail(rs))

RECURSIVE Flatten(_)
Flatten(ss) == IF ss = << >> THEN << >> ELSE Head(ss) \o Flatten(Tail(ss))

Inserts == { i \in 1..Len(requests) : IsInsert(requests[i]) }
Breaks(a, b) == Cardinality({ i \in (a + 1)..(b - 1) : IsBreak(requests[i]) })

(* i < j are insertText requests with no insertText between them *)
NextInsert(i, j) ==
  /\ i \in Inserts /\ j \in Inserts /\ i < j
  /\ \A m \in (i + 1)..(j - 1) : m \notin Inserts

(* Trimming, stated on its own: the longest slice with no blank at either end *)
Blank(c) == c = " " \/ c = "\t" \/ c = "\r" \/ c = NL
Trimmed(s) ==
  LET keep == { i \in 1..Len(s) : ~ Blank(s[i]) }
  IN  IF keep = {} THEN << >>
      ELSE LET lo == CHOOSE i \in keep : \A j \in keep : i <= j
               hi == CHOOSE i \in keep : \A j \in keep : j <= i
           IN  [i \in 1..(hi - lo + 1) |-> s[lo + i - 1]]

HasPrefix(s, p) == Len(s) >= Len(p) /\ \A i \in 1..Len(p) : s[i] = p[i]
Drop(s, n) == [i \in 1..(Len(s) - n) |-> s[i + n]]

Hash1 == <<"#", " ">>
Hash2 == <<"#", "#", " ">>
Hash3 == <<"#", "#", "#", " ">>
Dash == <<"-", " ">>
Star == <<"*", " ">>
Sentinel == <<"<", "N", "E", "W", "P", "A", "G", "E", ">">>

(* the prefixes the converter strips / the prefixes the specification names *)
HasCodePrefix(s) == \E p \in {Hash1, Hash2, Dash, Star} : HasPrefix(s, p)
HasSpecPrefix(s) == \E p \in {Hash1, Hash2, Hash3, Dash, Star} : HasPrefix(s, p)

StarsAt(s, i) == i + 1 <= Len(s) /\ s[i] = "*" /\ s[i + 1] = "*"
ClosesAfter(s, i) == \E j \in (i + 2)..Len(s) : StarsAt(s, j)
Closing(s, i) == CHOOSE j \in (i + 2)..Len(s) :
                   StarsAt(s, j) /\ \A m \in (i + 2)..(j - 1) : ~ StarsAt(s, m)

(* s from position i on, with the delimiters of every closed pair removed *)
RECURSIVE Display(_, _)
Display(s, i) ==
  IF i > Len(s) THEN << >>
  ELSE IF StarsAt(s, i) /\ ClosesAfter(s, i)
       THEN [m \in 1..(Closing(s, i) - i - 2) |-> s[i + 1 + m]]
            \o Display(s, Closing(s, i) + 2)
       ELSE << s[i] >> \o Display(s, i + 1)

HasClosedPair(s) == \E i \in 1..Len(s) : StarsAt(s, i) /\ ClosesAfter(s, i)

(* s with every occurrence of the two-star delimiter removed *)
RECURSIVE NoStars(_, _)
NoStars(s, i) ==
  IF i > Len(s) THEN << >>
  ELSE IF StarsAt(s, i) THEN NoStars(s, i + 2)
  ELSE << s[i] >> \o NoStars(s, i + 1)

(* number of delimiters, read left to right: even when every opener closes *)
RECURSIVE Delims(_, _)
Delims(s, i) ==
  IF i > Len(s) THEN 0
  ELSE IF StarsAt(s, i) THEN 1 + Delims(s, i + 2) ELSE Delims(s, i + 1)

WellFormedBold(s) == Delims(s, 1) % 2 = 0

Done == pc = "returned"

(* the endpoint has built the converter's argument *)
Composed ==
  pc \in {"convert", "loop", "returned", "updated", "permitted", "linked",
          "done"}

(* the lines of a string, read off the positions of its line breaks *)
Breakpoints(md) == { i \in 1..Len(md) : md[i] = NL }
NumLines(md) == Cardinality(Breakpoints(md)) + 1
BreakNo(md, k) ==
  IF k = 0 THEN 0
  ELSE IF k = NumLines(md) THEN Len(md) + 1
  ELSE CHOOSE p \in Breakpoints(md) :
         Cardinality({ q \in Breakpoints(md) : q < p }) = k - 1
LineAt(md, k) ==
  LET a == BreakNo(md, k - 1)
      b == BreakNo(md, k)
  IN  [i \in 1..(b - a - 1) |-> md[a + i]]
LinesOf(md) == [k \in 1..NumLines(md) |-> LineAt(md, k)]

HasStars(t) == \E i \in 1..Len(t) : StarsAt(t, i)

---------------------------------------------------------------------------
(* C1: the starts of the insertText requests, in emission order, never     *)
(* decrease; the first is 1 plus the number of page breaks emitted before  *)
(* it, and each later start is the previous start plus the length of the   *)
(* previous text plus the number of page breaks emitted between the two.   *)
C1_CursorMonotonic ==
  /\ \A i \in Inserts :
       (\A m \in 1..(i - 1) : m \notin Inserts)
         => requests[i].startIndex = 1 + Breaks(0, i)
  /\ \A i, j \in Inserts :
       NextInsert(i, j)
         => /\ requests[j].startIndex >= requests[i].startIndex
            /\ requests[j].startIndex =
                 requests[i].startIndex + Len(requests[i].text) + Breaks(i, j)

(* C1 as stated: the first start is 1 and each later start is the previous *)
(* start plus the previous length, page breaks notwithstanding.            *)
C1_AsStated ==
  /\ \A i \in Inserts :
       (\A m \in 1..(i - 1) : m \notin Inserts) => requests[i].startIndex = 1
  /\ \A i, j \in Inserts :
       NextInsert(i, j)
         => requests[j].startIndex =
              requests[i].startIndex + Len(requests[i].text)

C1_Witness ==
  /\ Done
  /\ \E i, j \in Inserts :
       /\ NextInsert(i, j) /\ Breaks(i, j) = 1
       /\ Len(requests[i].text) > 1 /\ Len(requests[j].text) > 1
  /\ \E i \in 1..Len(requests) : requests[i].op = "createParagraphBullets"

(* C2: the texts of the insertText requests, concatenated in emission      *)
(* order, are, line by line of the input and skipping sentinel lines, the  *)
(* trimmed line without its '## ', '# ', '- ' or '* ' prefix (delimiters   *)
(* kept) or, for a line with no such prefix, without the delimiters of its *)
(* closed bold pairs; each followed by one line break.                     *)
VisibleLine(l) ==
  LET s == Trimmed(l)
  IN  IF s = Sentinel THEN << >>
      ELSE IF HasPrefix(s, Hash2) THEN Drop(s, 3) \o <<NL>>
      ELSE IF HasPrefix(s, Hash1) \/ HasPrefix(s, Dash) \/ HasPrefix(s, Star)
           THEN Drop(s, 2) \o <<NL>>
      ELSE Display(s, 1) \o <<NL>>

VisibleText(md) == Flatten([k \in 1..NumLines(md) |-> VisibleLine(LineAt(md, k))])

NotSentinel(l) == Trimmed(l) # Sentinel
SpecLine(l) ==
  NoStars(IF HasPrefix(l, Hash3) THEN Drop(l, 4)
          ELSE IF HasPrefix(l, Hash2) THEN Drop(l, 3)
          ELSE IF HasSpecPrefix(l) THEN Drop(l, 2)
          ELSE l, 1)
RECURSIVE JoinLines(_)
JoinLines(ls) ==
  IF ls = << >> THEN << >>
  ELSE IF Len(ls) = 1 THEN SpecLine(ls[1])
  ELSE SpecLine(ls[1]) \o <<NL>> \o JoinLines(Tail(ls))
SpecVisibleText(md) == JoinLines(SelectSeq(LinesOf(md), NotSentinel))

C3_NoDelimiterLeak ==
  (\A k \in 1..NumLines(markdown_content) :
     WellFormedBold(LineAt(markdown_content, k)))
    => \A i \in Inserts : ~ HasStars(requests[i].text)

(* C4: every range of a paragraph-style, bullet or bold request lies       *)
(* within the span of an insertText request emitted before it, and holds   *)
(* no line break that another insertText request inserted.                 *)
SpanHolds(j, i) ==
  /\ requests[j].startIndex <= requests[i].startIndex
  /\ requests[i].startIndex <= requests[i].endIndex
  /\ requests[i].endIndex <= requests[j].startIndex + Len(requests[j].text)

BreakInside(m, i) ==
  \E p \in 1..Len(requests[m].text) :
    /\ requests[m].text[p] = NL
    /\ requests[i].startIndex <= requests[m].startIndex + p - 1
    /\ requests[m].startIndex + p - 1 < requests[i].endIndex

C4_RangeContained ==
  \A i \in 1..Len(requests) :
    IsRange(requests[i])
      => \E j \in Inserts :
           /\ j < i
           /\ SpanHolds(j, i)
           /\ \A m \in Inserts \ {j} : ~ BreakInside(m, i)

C4_Witness ==
  /\ Done
  /\ \E i \in 1..Len(requests) :
       /\ requests[i].op = "updateTextStyle"
       /\ requests[i].startIndex < requests[i].endIndex
       /\ i + 1 < Len(requests)
  /\ \E i \in 1..Len(requests) : requests[i].op = "updateParagraphStyle"
  /\ \E i \in 1..Len(requests) : requests[i].op = "createParagraphBullets"

(* C5: the converter has a step for every line of every input; a line that *)
(* is empty once trimmed gives one insertText of a line break, and a line  *)
(* with no structural prefix gives its text and a line break, with no      *)
(* paragraph-style or bullet request, and no bold request either unless a  *)
(* bold pair closes.                                                       *)
LineNo(k) == Trimmed(LineAt(markdown_content, k))

C5_Tolerant ==
  /\ pc \in {"convert", "loop"} => ENABLED NextConv
  /\ \A k \in 1..line_no :
       LET s == LineNo(k)
           ops == LineOps(k)
       IN  /\ s = << >> => ops = << InsertText(CursorBefore(k), <<NL>>) >>
           /\ (s # << >> /\ s # Sentinel /\ ~ HasSpecPrefix(s))
                => /\ \A i \in 1..Len(ops) :
                        ops[i].op \in {"insertText", "updateTextStyle"}
                   /\ ConcatTexts(ops) = Display(s, 1) \o <<NL>>
                   /\ CursorAfter(k) = CursorBefore(k) + Len(Display(s, 1)) + 1
                   /\ ~ HasClosedPair(s)
                        => /\ \A i \in 1..Len(ops) : IsInsert(ops[i])
                           /\ ConcatTexts(ops) = s \o <<NL>>

C5_Witness ==
  /\ Done
  /\ \E k \in 1..line_no : LineNo(k) = << >>
  /\ \E k \in 1..line_no : LineNo(k) = <<"#">>
  /\ \E k \in 1..line_no :
       HasStars(LineNo(k)) /\ ~ HasClosedPair(LineNo(k)) /\ ~ HasSpecPrefix(LineNo(k))

(* C6: a line whose trimmed content is the sentinel emits exactly one      *)
(* insertPageBreak at the cursor and advances the cursor by 1, so the      *)
(* request emitted next starts one position after the page break.          *)
C6_PageBreakAdvances ==
  \A k \in 1..line_no :
    LineNo(k) = Sentinel
      => /\ LineOps(k) = << InsertPageBreak(CursorBefore(k)) >>
         /\ CursorAfter(k) = CursorBefore(k) + 1
         /\ MarkAfter(k) < Len(requests)
              => requests[MarkAfter(k) + 1].startIndex = CursorBefore(k) + 1

(* C6 as stated: the page break leaves the cursor where it is *)
C6_AsStated ==
  \A k \in 1..line_no :
    LineNo(k) = Sentinel
      => /\ LineOps(k) = << InsertPageBreak(CursorBefore(k)) >>
         /\ CursorAfter(k) = CursorBefore(k)
         /\ MarkAfter(k) < Len(requests)
              => requests[MarkAfter(k) + 1].startIndex = CursorBefore(k)

C6_Witness ==
  /\ Done
  /\ \E i \in 1..(Len(requests) - 1) :
       /\ IsBreak(requests[i]) /\ requests[i].startIndex > 1
       /\ IsInsert(requests[i + 1]) /\ Len(requests[i + 1].text) > 1

(* C7: for an input made of one line and a final line break, the converter *)
(* emits that line's requests and then one insertText of a line break for  *)
(* the empty remainder, which advances the cursor by 1.                    *)
OneLineAndBreak ==
  NumLines(markdown_content) = 2 /\ LineAt(markdown_content, 2) = << >>

C7_RemainderIsBlank ==
  (Done /\ OneLineAndBreak)
    => /\ line_no = 2
       /\ LineOps(2) = << InsertText(CursorAfter(1), <<NL>>) >>
       /\ current_index = CursorAfter(1) + 1
       /\ markdown_content = H1Prefix \o Title \o <<NL>>
            => requests = << InsertText(1, Title \o <<NL>>),
                             UpdateParagraphStyle(1, 6, "HEADING_1"),
                             InsertText(7, <<NL>>) >>
       /\ markdown_content = <<NL>>
            => /\ requests = << InsertText(1, <<NL>>), InsertText(2, <<NL>>) >>
               /\ current_index = 3
       /\ markdown_content = Sentinel \o <<NL>>
            => requests = << InsertPageBreak(1), InsertText(2, <<NL>>) >>

(* C7 as stated: the empty remainder emits nothing *)
C7_AsStated ==
  (Done /\ OneLineAndBreak)
    => /\ Len(requests) = MarkAfter(1)
       /\ markdown_content = H1Prefix \o Title \o <<NL>>
            => requests = << InsertText(1, Title \o <<NL>>),
                             UpdateParagraphStyle(1, 6, "HEADING_1") >>
       /\ markdown_content = <<NL>>
            => requests = << InsertText(1, <<NL>>) >> /\ current_index = 2
       /\ markdown_content = Sentinel \o <<NL>> => Len(requests) = 1

C7_Witness ==
  /\ Done
  /\ markdown_content = <<"#", " ">> \o Title \o <<NL>>
  /\ Len(requests) = 3

(* C8: a line with no structural prefix in which a bold pair closes is     *)
(* inserted segment by segment: one insertText per plain and per bold      *)
(* segment, each at the running cursor, every bold segment followed at     *)
(* once by a bold request over exactly that segment, and last an           *)
(* insertText of the line break alone; the texts put together are the      *)
(* delimiter-free display text followed by the line break.                 *)
RECURSIVE Pairs(_, _)
Pairs(s, i) ==
  IF i > Len(s) THEN 0
  ELSE IF StarsAt(s, i) /\ ClosesAfter(s, i)
       THEN 1 + Pairs(s, Closing(s, i) + 2)
       ELSE Pairs(s, i + 1)

BoldParagraph(s) == s # Sentinel /\ ~ HasSpecPrefix(s) /\ HasClosedPair(s)

PlainBoldTextOps ==
  << InsertText(1, <<"P", "l", "a", "i", "n", " ">>),
     InsertText(7, <<"b", "o", "l", "d">>),
     UpdateTextStyle(7, 11),
     InsertText(11, <<" ", "t", "e", "x", "t">>),
     InsertText(16, <<NL>>) >>

C8_BoldBySegments ==
  \A k \in 1..line_no :
    BoldParagraph(LineNo(k))
      => LET ops == LineOps(k)
             bolds == { i \in 1..Len(ops) : ops[i].op = "updateTextStyle" }
         IN  /\ Len(ops) >= 3
             /\ IsInsert(ops[1]) /\ ops[1].startIndex = CursorBefore(k)
             /\ ops[Len(ops)] = InsertText(CursorAfter(k) - 1, <<NL>>)
             /\ \A i \in 1..Len(ops) : IsInsert(ops[i]) \/ i \in bolds
             /\ ConcatTexts(ops) = Display(LineNo(k), 1) \o <<NL>>
             /\ Cardinality(bolds) = Pairs(LineNo(k), 1)
             /\ \A i \in bolds :
                  /\ i > 1 /\ IsInsert(ops[i - 1])
                  /\ ops[i].startIndex = ops[i - 1].startIndex
                  /\ ops[i].endIndex = ops[i].startIndex + Len(ops[i - 1].text)
             /\ LineAt(markdown_content, k) = PlainBoldText /\ k = 1
                  => ops = PlainBoldTextOps

(* C8 as stated: one insertText carries the whole display text and break *)
C8_AsStated ==
  \A k \in 1..line_no :
    BoldParagraph(LineNo(k))
      => LET ops == LineOps(k)
         IN  /\ Cardinality({ i \in 1..Len(ops) : IsInsert(ops[i]) }) = 1
             /\ ops[1] = InsertText(CursorBefore(k),
                                    Display(LineNo(k), 1) \o <<NL>>)

C8_Witness ==
  /\ Done
  /\ markdown_content = PlainBoldText \o <<NL>>
  /\ Len(requests) = 6

(* C9: the requests reach the document service in one or more batches of   *)
(* at most N requests each, which put together are the converter's list.   *)
C9_BatchesBounded ==
  pc = "updated"
    => /\ Len(batches) >= 1
       /\ \A b \in 1..Len(batches) : Len(batches[b]) <= N
       /\ Flatten(batches) = requests_for_docs_api

(* C10: the converter is handed the ETP section, a blank line, the         *)
(* sentinel line, a blank line and the TR section, so the requests between *)
(* those of the last ETP line and those of the first TR line are an        *)
(* insertText of a line break, one insertPageBreak and an insertText of a  *)
(* line break.                                                             *)
C10_Composition ==
  /\ Composed
       => markdown_content =
            etp_content_md \o <<NL, NL>> \o Sentinel \o <<NL, NL>> \o tr_content_md
  /\ pc \in {"returned", "updated"}
       => LET n == NumLines(etp_content_md)
          IN  /\ line_no = n + 3 + NumLines(tr_content_md)
              /\ SubSeq(requests, MarkAfter(n) + 1, line_marks[n + 4][2])
                   = << InsertText(CursorAfter(n), <<NL>>),
                        InsertPageBreak(CursorAfter(n) + 1),
                        InsertText(CursorAfter(n) + 2, <<NL>>) >>

(* C10 as stated: only the sentinel line lies between the two sections *)
C10_AsStated ==
  /\ Composed
       => markdown_content =
            etp_content_md \o <<NL>> \o Sentinel \o <<NL>> \o tr_content_md
  /\ pc \in {"returned", "updated"}
       => LET n == NumLines(etp_content_md)
              m == line_no - NumLines(tr_content_md)
          IN  SubSeq(requests, MarkAfter(n) + 1, MarkAfter(m))
                = << InsertPageBreak(CursorAfter(n)) >>

C10_Witness ==
  /\ pc = "updated"
  /\ Len(etp_content_md) > 1 /\ Len(tr_content_md) > 1
  /\ \A k \in 1..NumLines(etp_content_md) : LineAt(etp_content_md, k) # Sentinel
  /\ \A k \in 1..NumLines(tr_content_md) : LineAt(tr_content_md, k) # Sentinel
  /\ Len(batches) = 1

(* C11: every position of the range of a paragraph-style, bullet or bold   *)
(* request was inserted by an insertText request emitted before it, and by *)
(* none emitted after it.                                                  *)
Covers(j, p) ==
  /\ requests[j].startIndex <= p
  /\ p < requests[j].startIndex + Len(requests[j].text)

C11_InsertBeforeDecorate ==
  \A i \in 1..Len(requests) :
    IsRange(requests[i])
      => \A p \in requests[i].startIndex..(requests[i].endIndex - 1) :
           /\ \E j \in Inserts : j < i /\ Covers(j, p)
           /\ \A j \in Inserts : j > i => ~ Covers(j, p)

C11_Witness ==
  /\ Done
  /\ \E i \in 3..Len(requests) :
       /\ IsRange(requests[i])
       /\ requests[i].startIndex + 1 < requests[i].endIndex
       /\ \E j \in Inserts : j > i /\ Len(requests[j].text) > 1

(* C12: the requests of a line follow those of the lines before it and     *)
(* start with its page break or its first insertText; a paragraph-style or *)
(* bullet request comes second and last, right after the one insertText of *)
(* its line; a bold request comes right after the insertText of its own    *)
(* segment, and insertText requests of the same line follow it.            *)
IsBold(r) == r.op = "updateTextStyle"
IsStructural(r) == r.op \in {"updateParagraphStyle", "createParagraphBullets"}

C12_EmissionOrder ==
  \A k \in 1..line_no :
    LET ops == LineOps(k)
    IN  /\ line_marks[k][2] < MarkAfter(k)
        /\ k > 1 => line_marks[k - 1][2] < line_marks[k][2]
        /\ IsInsert(ops[1]) \/ IsBreak(ops[1])
        /\ ops[1].startIndex = CursorBefore(k)
        /\ ConcatTexts(ops) = VisibleLine(LineAt(markdown_content, k))
        /\ \A i \in 1..Len(ops) :
             /\ IsStructural(ops[i])
                  => i = 2 /\ Len(ops) = 2 /\ IsInsert(ops[1])
             /\ IsBold(ops[i])
                  => /\ i > 1 /\ IsInsert(ops[i - 1])
                     /\ ops[i - 1].startIndex = ops[i].startIndex
                     /\ \E j \in (i + 1)..Len(ops) : IsInsert(ops[j])

(* C12 as stated: within a line, inserts and breaks, then the paragraph    *)
(* style, then the bullet, then the bold requests.                         *)
Rank(r) ==
  IF IsInsert(r) \/ IsBreak(r) THEN 1
  ELSE IF r.op = "updateParagraphStyle" THEN 2
  ELSE IF r.op = "createParagraphBullets" THEN 3
  ELSE 4

C12_AsStated ==
  \A k \in 1..line_no :
    LET ops == LineOps(k)
    IN  \A i, j \in 1..Len(ops) : i < j => Rank(ops[i]) <= Rank(ops[j])

C12_Witness ==
  /\ Done
  /\ line_no >= 3
  /\ \E i \in 1..Len(requests) : IsBold(requests[i])
  /\ \E i \in 1..Len(requests) : requests[i].op = "createParagraphBullets"
  /\ \E i \in 1..Len(requests) : requests[i].op = "updateParagraphStyle"

(* C13: a trimmed line made of a heading prefix of level 1, 2 or 3 and a   *)
(* payload emits an insertText of the payload and a line break at the      *)
(* cursor, then a paragraph style of that level over the payload without   *)
(* the line break, and advances the cursor by the payload and the break.   *)
HeadingPrefix(level) ==
  IF level = 1 THEN Hash1 ELSE IF level = 2 THEN Hash2 ELSE Hash3

HeadingStyle(level) ==
  IF level = 1 THEN "HEADING_1"
  ELSE IF level = 2 THEN "HEADING_2" ELSE "HEADING_3"

HeadingShape(k, level) ==
  LET payload == Drop(LineNo(k), level + 1)
      c == CursorBefore(k)
  IN  /\ LineOps(k) =
           << InsertText(c, payload \o <<NL>>),
              UpdateParagraphStyle(c, c + Len(payload), HeadingStyle(level)) >>
      /\ CursorAfter(k) = c + Len(payload) + 1

C13_HeadingLine ==
  \A k \in 1..line_no :
    \A level \in 1..3 :
      HasPrefix(LineNo(k), HeadingPrefix(level)) => HeadingShape(k, level)

(* C14: a trimmed line starting with three hashes and a blank is inserted  *)
(* without that prefix and is given the paragraph style of level 3.        *)
C14_HeadingLevel3 ==
  \A k \in 1..line_no :
    HasPrefix(LineNo(k), Hash3)
      => /\ ~ HasPrefix(ConcatTexts(LineOps(k)), <<"#">>)
         /\ \E i \in 1..Len(LineOps(k)) :
              /\ LineOps(k)[i].op = "updateParagraphStyle"
              /\ LineOps(k)[i].style = "HEADING_3"

(* C15: a trimmed line made of a dash or a star, a blank and a payload     *)
(* emits an insertText of the payload and a line break at the cursor, then *)
(* a bullet request over the payload and its line break, and advances the  *)
(* cursor by the payload and the break.                                    *)
C15_BulletLine ==
  \A k \in 1..line_no :
    (HasPrefix(LineNo(k), Dash) \/ HasPrefix(LineNo(k), Star))
      => LET payload == Drop(LineNo(k), 2)
             c == CursorBefore(k)
             ops == LineOps(k)
         IN  /\ Len(ops) = 2
             /\ IsInsert(ops[1]) /\ ops[1].startIndex = c
             /\ ops[1].text = payload \o <<NL>>
             /\ ops[2].op = "createParagraphBullets"
             /\ ops[2].startIndex = c
             /\ ops[2].endIndex = c + Len(payload) + 1
             /\ CursorAfter(k) = c + Len(payload) + 1
             /\ LineAt(markdown_content, k) = Dash \o ItemOne /\ k = 1
                  => ops[1].text = ItemOne \o <<NL>>
                     /\ ops[2].startIndex = 1 /\ ops[2].endIndex = 10

C15_Witness ==
  /\ Done
  /\ markdown_content = <<"-", " ">> \o ItemOne \o <<NL>>
  /\ Len(requests) = 3

(* C16: a line that is empty once trimmed emits one insertText of a line   *)
(* break and advances the cursor by 1; a line with no structural prefix    *)
(* and no delimiter emits one insertText of the line and a line break; one *)
(* that has delimiters of which no pair closes emits an insertText of the  *)
(* line and then an insertText of the line break; none emits a style.      *)
PlainLine(s) == s # << >> /\ s # Sentinel /\ ~ HasSpecPrefix(s)

C16_BlankAndPlain ==
  \A k \in 1..line_no :
    LET s == LineNo(k)
        c == CursorBefore(k)
    IN  /\ s = << >>
             => LineOps(k) = << InsertText(c, <<NL>>) >> /\ CursorAfter(k) = c + 1
        /\ (PlainLine(s) /\ ~ HasStars(s))
             => /\ LineOps(k) = << InsertText(c, s \o <<NL>>) >>
                /\ CursorAfter(k) = c + Len(s) + 1
        /\ (PlainLine(s) /\ HasStars(s) /\ ~ HasClosedPair(s))
             => /\ LineOps(k) = << InsertText(c, s),
                                   InsertText(c + Len(s), <<NL>>) >>
                /\ CursorAfter(k) = c + Len(s) + 1

(* C16 as stated: every line with no structural prefix and no bold span    *)
(* emits exactly one request.                                              *)
C16_AsStated ==
  \A k \in 1..line_no :
    LET s == LineNo(k)
        c == CursorBefore(k)
    IN  /\ s = << >>
             => LineOps(k) = << InsertText(c, <<NL>>) >> /\ CursorAfter(k) = c + 1
        /\ (PlainLine(s) /\ ~ HasClosedPair(s))
             => /\ LineOps(k) = << InsertText(c, s \o <<NL>>) >>
                /\ CursorAfter(k) = c + Len(s) + 1

C16_Witness ==
  /\ Done
  /\ \E k \in 1..line_no : LineNo(k) = << >> /\ CursorBefore(k) > 1
  /\ \E k \in 1..line_no : PlainLine(LineNo(k)) /\ ~ HasStars(LineNo(k))
  /\ \E k \in 1..line_no :
       PlainLine(LineNo(k)) /\ HasStars(LineNo(k)) /\ ~ HasClosedPair(LineNo(k))

(* C17: a heading or bullet line whose payload holds closed bold pairs     *)
(* emits its paragraph-style or bullet request and one bold request per    *)
(* pair.                                                                   *)
Payload(s) == IF HasPrefix(s, Hash2) THEN Drop(s, 3) ELSE Drop(s, 2)

C17_StructureThenBold ==
  \A k \in 1..line_no :
    LET s == LineNo(k)
        ops == LineOps(k)
    IN  (HasCodePrefix(s) /\ HasClosedPair(Payload(s)))
          => /\ \E i \in 1..Len(ops) : IsStructural(ops[i])
             /\ Cardinality({ i \in 1..Len(ops) : IsBold(ops[i]) })
                  = Pairs(Payload(s), 1)

(* C18: the bold requests of a line are, in order, the closed pairs of the *)
(* line read left to right: each range starts where the first character of *)
(* the pair's inner text was inserted and is as long as that text; it      *)
(* holds exactly that text, ends before the line break of the line, and    *)
(* ends no later than the next bold range starts.                          *)
RECURSIVE BoldSpans(_, _, _)
BoldSpans(s, i, off) ==
  IF i > Len(s) THEN << >>
  ELSE IF StarsAt(s, i) /\ ClosesAfter(s, i)
       THEN LET inner == [m \in 1..(Closing(s, i) - i - 2) |-> s[i + 1 + m]]
            IN  << <<off, inner>> >>
                \o BoldSpans(s, Closing(s, i) + 2, off + Len(inner))
       ELSE BoldSpans(s, i + 1, off + 1)

C18_BoldRangeExact ==
  \A k \in 1..line_no :
    LET ops == LineOps(k)
        bolds == SelectSeq(ops, IsBold)
        spans == BoldSpans(LineNo(k), 1, 0)
        c == CursorBefore(k)
        inserted == ConcatTexts(ops)
    IN  Len(bolds) > 0
          => /\ Len(bolds) = Len(spans)
             /\ \A n \in 1..Len(bolds) :
                  /\ bolds[n].startIndex = c + spans[n][1]
                  /\ bolds[n].endIndex = bolds[n].startIndex + Len(spans[n][2])
                  /\ SubSeq(inserted, bolds[n].startIndex - c + 1,
                            bolds[n].endIndex - c) = spans[n][2]
                  /\ bolds[n].endIndex <= CursorAfter(k) - 1
                  /\ inserted[CursorAfter(k) - c] = NL
             /\ \A n, m \in 1..Len(bolds) :
                  n < m => bolds[n].endIndex <= bolds[m].startIndex

C18_Witness ==
  /\ Done
  /\ markdown_content = TwoBolds
  /\ \E i, j \in 1..Len(requests) :
       /\ i < j /\ IsBold(requests[i]) /\ IsBold(requests[j])
       /\ requests[i].startIndex < requests[i].endIndex
       /\ requests[i].endIndex < requests[j].startIndex
       /\ requests[j].startIndex + 1 < requests[j].endIndex

(* C19: no insertText request carries the empty text and no bold request   *)
(* has an empty range.                                                     *)
C19_NoEmptyOperation ==
  \A i \in 1..Len(requests) :
    /\ IsInsert(requests[i]) => requests[i].text # << >>
    /\ IsBold(requests[i]) => requests[i].startIndex < requests[i].endIndex

(* C20: a line that holds delimiters of which no pair closes gets no bold  *)
(* request and its whole payload as one plain insert; when the number of   *)
(* delimiters is odd and pairs close, the leftmost pairs are bold, one     *)
(* bold request each, and the rest of the line, last delimiter included,   *)
(* is one plain insert.                                                    *)
C20_UnmatchedDelimiter ==
  \A k \in 1..line_no :
    LET s == LineNo(k)
        ops == LineOps(k)
        c == CursorBefore(k)
        rest == ops[Len(ops) - 1]
    IN  /\ (s # Sentinel /\ HasStars(s) /\ ~ HasClosedPair(s))
             => /\ \A i \in 1..Len(ops) : ~ IsBold(ops[i])
                /\ IF HasCodePrefix(s)
                   THEN IsInsert(ops[1]) /\ ops[1].text = Payload(s) \o <<NL>>
                   ELSE ops = << InsertText(c, s), InsertText(c + Len(s), <<NL>>) >>
        /\ (s # Sentinel /\ ~ HasCodePrefix(s) /\ HasClosedPair(s)
              /\ Delims(s, 1) % 2 = 1)
             => /\ Cardinality({ i \in 1..Len(ops) : IsBold(ops[i]) })
                     = Delims(s, 1) \div 2
                /\ \A i \in 1..Len(ops) : IsBold(ops[i]) => i < Len(ops) - 1
                /\ IsInsert(rest) /\ HasStars(rest.text)
                /\ rest.text = SubSeq(s, Len(s) - Len(rest.text) + 1, Len(s))
                /\ ops[Len(ops)] = InsertText(rest.startIndex + Len(rest.text), <<NL>>)

C20_Witness ==
  /\ Done
  /\ markdown_content = OddDelimiters
  /\ Cardinality({ i \in 1..Len(requests) : IsBold(requests[i]) }) = 1
  /\ Len(requests) = 6

---------------------------------------------------------------------------
(* C21: a line emits a page break exactly when, trimmed, it is the         *)
(* sentinel <NEWPAGE> in that casing, and then it emits nothing else; a    *)
(* line with another casing or with the sentinel inside other text emits   *)
(* no page break and is inserted as the text it is; the page breaks of a   *)
(* finished conversion are as many as the sentinel lines of its input.     *)
LowerSentinel == <<"<", "n", "e", "w", "p", "a", "g", "e", ">">>

BreaksOf(ops) == { i \in 1..Len(ops) : IsBreak(ops[i]) }

HoldsSentinel(t) ==
  \E i \in 1..Len(t) :
    i + Len(Sentinel) - 1 <= Len(t)
      /\ \A j \in 1..Len(Sentinel) : t[i + j - 1] = Sentinel[j]

SentinelLines(md) ==
  { k \in 1..NumLines(md) : Trimmed(LineAt(md, k)) = Sentinel }

C21_SentinelOnly ==
  /\ \A k \in 1..line_no :
       LET t == Trimmed(LineAt(markdown_content, k))
           ops == LineOps(k)
       IN  /\ BreaksOf(ops) # {} <=> t = Sentinel
           /\ t = Sentinel => ops = << InsertPageBreak(CursorBefore(k)) >>
           /\ t # Sentinel => Len(ops) >= 1 /\ IsInsert(ops[1])
           /\ (t = LowerSentinel \/ (HoldsSentinel(t) /\ t # Sentinel))
                /\ ~ HasCodePrefix(t) /\ ~ HasStars(t)
                => ops = << InsertText(CursorBefore(k), t \o <<NL>>) >>
  /\ Done => Cardinality(BreaksOf(requests))
               = Cardinality(SentinelLines(markdown_content))

(* two sentinel lines, one of them between blanks, around a line that      *)
(* holds the sentinel inside other text                                    *)
C21_Witness ==
  /\ Done
  /\ Cardinality(SentinelLines(markdown_content)) = 2
  /\ Cardinality(BreaksOf(requests)) = 2
  /\ \E k \in 1..line_no :
       Trimmed(LineAt(markdown_content, k)) # LineAt(markdown_content, k)
         /\ Trimmed(LineAt(markdown_content, k)) = Sentinel
  /\ \E k \in 1..line_no :
       HoldsSentinel(LineAt(markdown_content, k))
         /\ Trimmed(LineAt(markdown_content, k)) # Sentinel

---------------------------------------------------------------------------
(* C22: every call of the converter starts with the cursor at 1 and an     *)
(* empty list, and two finished calls with the same argument returned the  *)
(* same list, whatever was converted before or between them.               *)
C22_Stateless ==
  /\ pc = "loop" /\ line_no = 0 => current_index = 1 /\ requests = << >>
  /\ line_no >= 1 => line_marks[1] = <<1, 0>>
  /\ \A i, j \in 1..Len(conversions) :
       conversions[i][1] = conversions[j][1]
         => conversions[i][2] = conversions[j][2]

(* the same text converted first and third, another one in between *)
C22_Witness ==
  /\ Len(conversions) = 3
  /\ conversions[1][1] = conversions[3][1]
  /\ conversions[2][1] # conversions[1][1]
  /\ Len(conversions[1][2]) >= 2
  /\ Len(conversions[2][2]) >= 2
  /\ conversions[1][2] = conversions[3][2]

---------------------------------------------------------------------------
(* C23: while the converter runs, the model call has returned a text and   *)
(* no batchUpdate has been issued; no step of the conversion issues an     *)
(* external call; and the step that issues batchUpdate is taken when the   *)
(* converter has returned, with the whole list it returned.                *)
Issued(name) == { i \in 1..Len(calls) : calls[i].name = name }

Converting == pc \in {"convert", "loop"}

C23_ModelCallFirst ==
  Converting \/ pc = "returned"
    => /\ \E i \in Issued("generate_content_async") : calls[i].result = "text"
       /\ Issued("documents.batchUpdate") = {}

C23_NoCallInside == Converting => calls' = calls

C23_BatchAfterList ==
  Len(calls') > Len(calls) /\ calls'[Len(calls')].name = "documents.batchUpdate"
    => /\ pc = "returned"
       /\ line_no = Len(lines)
       /\ requests_for_docs_api = requests
       /\ batches' = Append(batches, requests)

C23_IoAroundConversion ==
  /\ [] C23_ModelCallFirst
  /\ [][C23_NoCallInside /\ C23_BatchAfterList]_vars

(* a request whose list of several operations has reached batchUpdate *)
C23_Witness ==
  /\ pc = "updated"
  /\ [i \in 1..Len(calls) |-> calls[i].name]
       = <<"generate_content_async", "build", "files.create",
           "documents.batchUpdate">>
  /\ line_no >= 6
  /\ batches = << requests >>

---------------------------------------------------------------------------
(* C24: after any number of lines the cursor is 1 plus the length of all   *)
(* the text inserted so far plus the number of page breaks emitted so far; *)
(* every index a line emits, insertion point, range start or range end, is *)
(* at least 1 and at most the cursor after that line.                      *)
RECURSIVE InsertedLength(_)
InsertedLength(rs) ==
  IF rs = << >> THEN 0
  ELSE (IF IsInsert(Head(rs)) THEN Len(Head(rs).text) ELSE 0)
       + InsertedLength(Tail(rs))

C24_CursorAccounting ==
  /\ current_index
       = 1 + InsertedLength(requests) + Cardinality(BreaksOf(requests))
  /\ \A k \in 1..line_no :
       /\ CursorAfter(k)
            = 1 + InsertedLength(SubSeq(requests, 1, MarkAfter(k)))
                + Cardinality(BreaksOf(SubSeq(requests, 1, MarkAfter(k))))
       /\ \A i \in 1..Len(LineOps(k)) :
            /\ 1 <= LineOps(k)[i].startIndex
            /\ LineOps(k)[i].startIndex <= LineOps(k)[i].endIndex
            /\ LineOps(k)[i].endIndex <= CursorAfter(k)

(* three lines done, a page break, a range and at least 4 characters in *)
C24_Witness ==
  /\ Done
  /\ line_no = 3
  /\ BreaksOf(requests) # {}
  /\ \E i \in 1..Len(requests) : IsRange(requests[i])
  /\ InsertedLength(requests) >= 4
  /\ current_index = 1 + InsertedLength(requests) + 1

---------------------------------------------------------------------------
(* C25: the converter returns at least one request for every text, the     *)
(* empty text included; so, once it has returned, the endpoint's next step *)
(* can only be the one that calls batchUpdate, never the one that skips    *)
(* the call.                                                               *)
CallsBatchUpdate == BatchUpdate /\ Len(calls') = Len(calls) + 1
SkipsBatchUpdate == BatchUpdate /\ calls' = calls

C25_NeverEmpty ==
  /\ line_no >= 1 => Len(requests) >= 1
  /\ Done => /\ Len(requests_for_docs_api) >= 1
             /\ ENABLED CallsBatchUpdate
             /\ ~ ENABLED SkipsBatchUpdate

(* the empty text: one line, one request *)
C25_Witness ==
  /\ Done
  /\ markdown_content = << >>
  /\ requests_for_docs_api = << InsertText(1, <<NL>>) >>

---------------------------------------------------------------------------
(* C26: a trimmed line that starts with a heading or bullet prefix has at  *)
(* least one character after it, so every paragraph-style range has        *)
(* startIndex < endIndex, every bullet range covers at least 2 positions,  *)
(* and the text inserted for such a line is its payload and a line break;  *)
(* a line that, trimmed, is only #, ##, - or * is inserted as a plain      *)
(* paragraph with no style request.                                        *)
LoneMarkers == { <<"#">>, <<"#", "#">>, <<"-">>, <<"*">> }

StyledOps(ops) ==
  { i \in 1..Len(ops) :
      ops[i].op \in {"updateParagraphStyle", "createParagraphBullets"} }

C26_NonEmptyStructure ==
  /\ \A i \in 1..Len(requests) :
       /\ requests[i].op = "updateParagraphStyle"
            => requests[i].startIndex < requests[i].endIndex
       /\ requests[i].op = "createParagraphBullets"
            => requests[i].endIndex - requests[i].startIndex >= 2
  /\ \A k \in 1..line_no :
       LET t == Trimmed(LineAt(markdown_content, k))
           ops == LineOps(k)
       IN  /\ StyledOps(ops) # {}
                => /\ HasCodePrefix(t)
                   /\ IsInsert(ops[1])
                   /\ Len(ops[1].text) >= 2
           /\ t \in LoneMarkers
                => ops = << InsertText(CursorBefore(k), t \o <<NL>>) >>

(* a heading, a bullet and a lone marker between blanks in one text *)
C26_Witness ==
  /\ Done
  /\ \E i \in 1..Len(requests) : requests[i].op = "updateParagraphStyle"
  /\ \E i \in 1..Len(requests) : requests[i].op = "createParagraphBullets"
  /\ \E k \in 1..line_no :
       /\ Trimmed(LineAt(markdown_content, k)) \in LoneMarkers
       /\ Trimmed(LineAt(markdown_content, k)) # LineAt(markdown_content, k)
       /\ Len(LineOps(k)) = 1

---------------------------------------------------------------------------
(* C27: the 200 response with success = true is returned only when the     *)
(* model call returned a text, then files().create returned a non-empty    *)
(* document id, then batchUpdate returned; when the document id is missing *)
(* or a call fails, other than permissions().create failing with an        *)
(* HttpError, the request ends at once with an error response, whose       *)
(* status is the one of the HttpError, or 500.                             *)
Returned(i) == calls[i].result \in {"returned", "text"}

Tolerated(i) ==
  calls[i].name = "permissions.create" /\ calls[i].result = "HttpError"

Ended == pc \in {"done", "failed"}

InOrder(n1, n2, n3) ==
  \E i, j, k \in 1..Len(calls) :
    /\ i < j /\ j < k
    /\ calls[i].name = n1 /\ Returned(i)
    /\ calls[j].name = n2 /\ Returned(j)
    /\ calls[k].name = n3 /\ Returned(k)

IdMissing ==
  \E i \in Issued("files.create") : Returned(i) /\ calls[i].value[1] = ""

ErrorResponse ==
  /\ pc = "failed"
  /\ ~ response.success
  /\ response.doc_link = << >>
  /\ response.status_code =
       IF calls # << >> /\ calls[Len(calls)].result = "HttpError"
       THEN CHOOSE st \in HttpStatuses : TRUE
       ELSE 500

SuccessMeansWritten ==
  response.success
    => /\ pc = "done"
       /\ response.status_code = 200
       /\ InOrder("generate_content_async", "files.create",
                  "documents.batchUpdate")
       /\ document_id # ""
       /\ response.document_id = document_id
       /\ batches = << requests_for_docs_api >>

C27_SuccessMeansWritten ==
  /\ SuccessMeansWritten
  /\ IdMissing \/ (\E i \in 1..Len(calls) : ~ Returned(i) /\ ~ Tolerated(i))
       => ErrorResponse
  /\ pc = "failed" => ErrorResponse

(* C27 as stated: whichever call of the block fails, the request ends with *)
(* an error                                                                *)
C27_AsStated ==
  /\ SuccessMeansWritten
  /\ Ended /\ (IdMissing \/ \E i \in 1..Len(calls) : ~ Returned(i))
       => ErrorResponse

(* the success response of a request all of whose calls returned *)
C27_Witness ==
  /\ pc = "done"
  /\ response.success
  /\ \A i \in 1..Len(calls) : Returned(i)
  /\ Len(calls) = 6
  /\ Len(batches[1]) >= 4

---------------------------------------------------------------------------
(* C28: when permissions().create fails with an HttpError the request goes *)
(* on: nothing is sent to the client yet, the next call is files().get,    *)
(* and when that call returns the 200 response follows; the doc_link of a  *)
(* 200 response is never empty: it is the link files().get returned, or,   *)
(* when that is empty, the link files().create returned, or, when that is  *)
(* empty too, the URL built from the document id.                          *)
PermissionFailed ==
  \E i \in Issued("permissions.create") : calls[i].result = "HttpError"

LastCall == calls[Len(calls)]

Fallback ==
  IF document_link_initial # << >> THEN document_link_initial
  ELSE <<"https://docs.google.com/document/d/", document_id, "/edit">>

C28_PermissionNonFatal ==
  /\ PermissionFailed /\ LastCall.name = "permissions.create"
       => /\ pc = "permitted"
          /\ response = NoResponse
          /\ ENABLED GetFinalLink
  /\ PermissionFailed /\ LastCall.name = "files.get" /\ Returned(Len(calls))
       => /\ pc \in {"linked", "done"}
          /\ pc = "linked" => ENABLED Respond
          /\ pc = "done" => response.success /\ response.status_code = 200
  /\ response.success
       => /\ response.doc_link # << >>
          /\ LastCall.name = "files.get"
          /\ response.doc_link =
               IF LastCall.value # << >> THEN LastCall.value ELSE Fallback

(* permission refused, no link from either call: the built URL is returned *)
C28_Witness ==
  /\ pc = "done"
  /\ PermissionFailed
  /\ response.success
  /\ document_link_initial = << >>
  /\ LastCall.value = << >>
  /\ response.doc_link
       = <<"https://docs.google.com/document/d/", "doc", "/edit">>

---------------------------------------------------------------------------
(* C29: the lookup never ends the request: it always has a next step until *)
(* the three kinds are stored, and no response is sent.  For each kind the *)
(* primary path is read once, the alternate path is read exactly when the  *)
(* primary read gave no text (blob missing, storage error, or empty text), *)
(* and the content kept is the primary text when there is one, else what   *)
(* the alternate read gave, which is None when the blob is missing or the  *)
(* read fails; without a storage client or bucket name nothing is read and *)
(* every content is None.  Only non-empty contents are stored.             *)
ReadsOf(file_path) ==
  { i \in 1..Len(calls) : calls[i].name = "storage.blob"
                            /\ calls[i].arg = file_path }

GaveText(i) == calls[i].result = "text"

Given(i) ==
  IF calls[i].result = "text" THEN [none |-> FALSE, text |-> calls[i].value]
  ELSE IF calls[i].result = "empty" THEN [none |-> FALSE, text |-> << >>]
  ELSE [none |-> TRUE, text |-> << >>]

KindResolved(k) ==
  LET P == ReadsOf(PrimaryPath(Kinds[k]))
      A == ReadsOf(AlternatePath(Kinds[k]))
  IN  IF ~ (storage_client /\ GCS_BUCKET_NAME # "")
      THEN P = {} /\ A = {} /\ content_found[k].none
      ELSE /\ Cardinality(P) = 1
           /\ Cardinality(A) <= 1
           /\ \A p \in P :
                /\ A = {} <=> GaveText(p)
                /\ \A a \in A : p < a
                /\ GaveText(p)
                     => content_found[k]
                          = [none |-> FALSE, text |-> calls[p].value]
                /\ \A a \in A : content_found[k] = Given(a)

C29_LookupFallback ==
  /\ pc \in {"primary", "alternate", "store", "looked_up"}
  /\ response = NoResponse
  /\ pc # "looked_up" => ENABLED NextLookup
  /\ \A k \in 1..Len(content_found) : KindResolved(k)
  /\ \A i \in 1..Len(calls) :
       /\ GaveText(i) <=> calls[i].value # << >>
       /\ GaveText(i) => calls[i].value = <<"text of ">> \o calls[i].arg
  /\ pc = "looked_up"
       => /\ Len(content_found) = 3
          /\ \A k \in 1..3 :
               IF content_found[k].text # << >>
               THEN /\ k \in DOMAIN gcs_accelerator_content
                    /\ gcs_accelerator_content[k] = content_found[k].text
               ELSE k \notin DOMAIN gcs_accelerator_content

(* BC from its primary path, DS from the alternate after a storage error,  *)
(* OP found under neither path                                             *)
C29_Witness ==
  /\ pc = "looked_up"
  /\ Len(calls) = 5
  /\ [i \in 1..5 |-> calls[i].result]
       = <<"text", "error", "text", "missing", "missing">>
  /\ DOMAIN gcs_accelerator_content = {1, 2}
  /\ gcs_accelerator_content[1] = <<"text of ">> \o PrimaryPath("BC")
  /\ gcs_accelerator_content[2] = <<"text of ">> \o AlternatePath("DS")
  /\ content_found[3].none

---------------------------------------------------------------------------
(* C30: once the model has been called, either the call gave a text whose  *)
(* JSON part is a JSON document, and then the function returned the value  *)
(* of that document, or the request has ended with status 500 and no other *)
(* call was made, no document created and no conversion run.  The JSON     *)
(* part is what lies between the first opening fence that a closing fence  *)
(* follows and that closing fence, when there is such a pair, else the     *)
(* whole text; blanks around it do not count.                              *)
FenceAt(t, i, fence) ==
  i + Len(fence) - 1 <= Len(t) /\ \A m \in 1..Len(fence) : t[i + m - 1] = fence[m]

OpenFence == <<"'", "'", "'", "j", "s", "o", "n">>
CloseFence == <<"'", "'", "'">>

Blocks(t) ==
  { <<i, j>> \in (1..Len(t)) \X (1..Len(t)) :
      FenceAt(t, i, OpenFence) /\ j >= i + Len(OpenFence)
        /\ FenceAt(t, j, CloseFence) }

FirstBlock(t) ==
  CHOOSE b \in Blocks(t) :
    \A c \in Blocks(t) : b[1] < c[1] \/ (b[1] = c[1] /\ b[2] <= c[2])

JsonPart(t) ==
  IF Blocks(t) = {} THEN Trimmed(t)
  ELSE LET b == FirstBlock(t)
       IN  Trimmed([m \in 1..(b[2] - b[1] - Len(OpenFence))
                      |-> t[b[1] + Len(OpenFence) + m - 1]])

IsJson(t) == JsonPart(t) = <<"J">> \/ JsonPart(t) = <<"K">>

ModelCall == calls[1]

C30_ModelCallMapping ==
  calls # << >>
    => /\ ModelCall.name = "generate_content_async"
       /\ IF ModelCall.result = "text" /\ IsJson(ModelCall.value)
          THEN /\ llm_response.type \in {"dict", "list"}
               /\ generated_text = ModelCall.value
               /\ JsonPart(generated_text) = <<"K">>
                    => llm_response = Dict(FALSE, << >>, FALSE, << >>)
               /\ JsonPart(generated_text) = <<"J">> /\ generated_text # <<"J">>
                    => llm_response
                         = Dict(TRUE, <<"#", " ", "a">>, TRUE, <<"a">>)
               /\ pc = "unpack" => response = NoResponse
          ELSE /\ pc = "failed"
               /\ response.status_code = 500
               /\ ~ response.success
               /\ Len(calls) = 1
               /\ llm_response.type = "none"
               /\ document_id = ""
               /\ conversions = << >> /\ requests = << >> /\ lines = << >>

(* a reply that opens a fence and never closes it: no JSON, status 500 *)
C30_Witness ==
  /\ pc = "failed"
  /\ Len(calls) = 1
  /\ ModelCall.result = "text"
  /\ ModelCall.value = OpenFence \o <<NL, "J">>
  /\ response.status_code = 500

====
